---------------------------- MODULE Spec2Model ----------------------------
(***************************************************************************)
(* Model of the email tracker service (src/tracker.py): the register-send, *)
(* pixel, click and status handlers over the two tables `sends` and        *)
(* `events`.                                                               *)
(*                                                                         *)
(* Conventions.  A string is a tuple of one-character strings, so that     *)
(* lower-casing and substring tests are computed.  A nullable column or an *)
(* optional parameter is a set with at most one element: NULL is {},       *)
(* a present value v is {v}.  A client address is the tuple of its         *)
(* dot-separated fields.  Time is a clock `now` in whole seconds.          *)
(***************************************************************************)
EXTENDS Integers, Sequences, FiniteSets, TLC

VARIABLES sends, events, now, reqs, lastStatus, tok

vars == <<sends, events, now, reqs, lastStatus, tok>>

-----------------------------------------------------------------------------
(* Values *)

NULL == {}

Val(v) == {v}

TheVal(o) == CHOOSE v \in o : TRUE

\* Python truthiness of an Optional[str]: None and "" are falsy.
Truthy(o) == o # NULL /\ o # Val(<<>>)

\* COALESCE(a, b)
Coalesce(a, b) == IF a # NULL THEN a ELSE b

UpperChars == <<"A", "B", "C", "D", "E", "F", "G", "H", "I", "J", "K", "L", "M", "N", "O", "P", "Q", "R", "S", "T", "U", "V", "W", "X", "Y", "Z">>

LowerChars == <<"a", "b", "c", "d", "e", "f", "g", "h", "i", "j", "k", "l", "m", "n", "o", "p", "q", "r", "s", "t", "u", "v", "w", "x", "y", "z">>

LowerChar(c) ==
    IF \E i \in 1..Len(UpperChars) : UpperChars[i] = c
    THEN LowerChars[CHOOSE i \in 1..Len(UpperChars) : UpperChars[i] = c]
    ELSE c

\* str.lower()
Lower(s) == [i \in 1..Len(s) |-> LowerChar(s[i])]

\* `sub in s`
Contains(s, sub) ==
    \E i \in 0..(Len(s) - Len(sub)) :
        \A j \in 1..Len(sub) : s[i + j] = sub[j]

-----------------------------------------------------------------------------
(* Inputs the environment can send *)

Email_a == <<"a", "@", "x">>

Email_A == <<"A", "@", "X">>

Email_b == <<"b", "@", "x">>

UA_Browser == <<"M", "o", "z", "i", "l", "l", "a">>

UA_Bot == <<"G", "o", "o", "g", "l", "e", "B", "o", "t">>

UA_Proxy == <<"G", "o", "o", "g", "l", "e", "I", "m", "a", "g", "e", "P", "r", "o", "x", "y">>

UA_Empty == <<>>

UA_Crawler == <<"C", "r", "a", "w", "l", "e", "r">>

Ref_None == <<>>

Ref_Sent == <<"m", "a", "i", "l", ".", "g", "o", "o", "g", "l", "e", ".", "c", "o", "m", "/", "#", "S", "e", "n", "t">>

Ref_Inbox == <<"m", "a", "i", "l", ".", "g", "o", "o", "g", "l", "e", ".", "c", "o", "m", "/", "#", "i", "n", "b", "o", "x">>

IP_Public == <<8, 8, 8, 8>>

IP_Private == <<10, 0, 0, 5>>

IP_Scanner == <<72, 14, 199, 1>>

\* a peer address that does not parse as an address
IP_Garbage == <<300, 1>>

\* Track ids are opaque; T1 and T2 are UUID-shaped, TBad is not.
T1 == "T1"

T2 == "T2"

TBad == "not-a-uuid"

Uuids == {T1, T2}

\* uuid.UUID(value) succeeds
valid_uuid(value) == value \in Uuids

-----------------------------------------------------------------------------
(* Sender tokens.  A token string is modelled by its ":"-separated          *)
(* segments.  A segment is a decimal integer, the hex digest of the HMAC    *)
(* of a message under the service's secret, or some other text.  The HMAC   *)
(* is taken as injective in its message.                                    *)

IntSeg(n) == [kind |-> "int", n |-> n, email |-> <<>>, track |-> ""]

TxtSeg == [kind |-> "txt", n |-> 0, email |-> <<>>, track |-> ""]

\* HMAC-SHA256(HMAC_SECRET, f"{sender_email}:{track_id}:{timestamp}").hexdigest()
Hmac(sender_email, track_id, timestamp) ==
    [kind |-> "mac", n |-> timestamp, email |-> sender_email, track |-> track_id]

NoToken == <<>>

generate_sender_token(sender_email, track_id, timestamp) ==
    <<IntSeg(timestamp), Hmac(sender_email, track_id, timestamp)>>

\* max_age default of verify_sender_token
MaxAge == 3600

\* The verification without the test of the token's age.
verify_sender_token_NoExpiry(token, sender_email, track_id, max_age, time) ==
    IF Len(token) # 2 THEN FALSE
    ELSE IF token[1].kind # "int" THEN FALSE
    ELSE token[2] = Hmac(sender_email, track_id, token[1].n)

verify_sender_token(token, sender_email, track_id, max_age, time) ==
    IF Len(token) # 2 THEN FALSE
    ELSE IF token[1].kind # "int" THEN FALSE
    ELSE IF time - token[1].n > max_age THEN FALSE
    ELSE token[2] = Hmac(sender_email, track_id, token[1].n)

-----------------------------------------------------------------------------
(* Signals *)

WellFormedIp(ip) == Len(ip) = 4 /\ \A i \in 1..4 : ip[i] \in 0..255

\* ipaddress: is_loopback, is_private, is_reserved, is_link_local,
\* is_multicast of an IPv4 address, and the prefix tests of the function.
is_internal_ip(ip) ==
    IF ~WellFormedIp(ip) THEN TRUE
    ELSE \/ ip[1] = 127
         \/ ip[1] = 10
         \/ ip[1] = 0
         \/ (ip[1] = 172 /\ ip[2] \in 16..31)
         \/ (ip[1] = 192 /\ ip[2] = 168)
         \/ (ip[1] = 169 /\ ip[2] = 254)
         \/ (ip[1] = 192 /\ ip[2] = 0 /\ ip[3] = 0 /\ ip[4] \in 0..7)
         \/ (ip[1] = 192 /\ ip[2] = 0 /\ ip[3] = 0 /\ ip[4] \in 170..171)
         \/ (ip[1] = 192 /\ ip[2] = 0 /\ ip[3] = 2)
         \/ (ip[1] = 198 /\ ip[2] \in 18..19)
         \/ (ip[1] = 198 /\ ip[2] = 51 /\ ip[3] = 100)
         \/ (ip[1] = 203 /\ ip[2] = 0 /\ ip[3] = 113)
         \/ ip[1] \in 224..239
         \/ ip[1] \in 240..255

ProxyMarkers ==
    { <<"g", "o", "o", "g", "l", "e", "i", "m", "a", "g", "e", "p", "r", "o", "x", "y">>,
      <<"g", "g", "p", "h", "t", ".", "c", "o", "m">>,
      <<"i", "m", "a", "g", "e", "p", "r", "o", "x", "y">> }

is_google_proxy_request(ua) == \E p \in ProxyMarkers : Contains(ua, p)

\* ip.startswith("72.14.")
is_google_scanner_ip(ip) == Len(ip) >= 3 /\ ip[1] = 72 /\ ip[2] = 14

MailHost == <<"m", "a", "i", "l", ".", "g", "o", "o", "g", "l", "e", ".", "c", "o", "m">>

sent_indicators ==
    { <<"i", "n", "%", "3", "A", "s", "e", "n", "t">>,
      <<"i", "n", ":", "s", "e", "n", "t">>,
      <<"/", "#", "s", "e", "n", "t">>,
      <<"#", "s", "e", "n", "t">>,
      <<"l", "a", "b", "e", "l", "/", "s", "e", "n", "t">>,
      <<"m", "a", "i", "l", "/", "s", "e", "n", "t">>,
      <<"s", "e", "n", "t", "%", "2", "0", "m", "a", "i", "l">>,
      <<"q", "m", "_", "s", "e", "n", "t">>,
      <<"i", "b", "_", "s", "e", "n", "t">> }

is_gmail_sent_view(referer) ==
    IF ~Contains(referer, MailHost) THEN FALSE
    ELSE \E ind \in sent_indicators : Contains(referer, ind)

\* "bot" in ua_string
BotWord == <<"b", "o", "t">>

\* client_ip = xff.split(",")[0].strip() if xff else ip
ClientIp(xff, ip) == IF xff # <<>> THEN xff[1] ELSE ip


-----------------------------------------------------------------------------
(* The store *)

TrackIds == Uuids \cup {TBad}

ReqIds == {"r1", "r2"}

NoDuration == NULL

\* One row of `sends`.  created_at is filled by the database when the row
\* is first inserted and is not among the columns the upsert updates.
SendRow(p, sender_ip, t) ==
    [ track_id         |-> TheVal(p.track_id),
      recipient_email  |-> p.recipient_email,
      gmail_message_id |-> p.gmail_message_id,
      gmail_thread_id  |-> p.gmail_thread_id,
      sender_email     |-> p.sender_email,
      sender_ip        |-> Val(sender_ip),
      subject          |-> p.subject,
      created_at       |-> t ]

\* INSERT INTO sends ... ON CONFLICT (track_id) DO UPDATE SET ...
UpsertSend(old, p, sender_ip, t) ==
    IF old = NULL THEN Val(SendRow(p, sender_ip, t))
    ELSE LET o == TheVal(old) IN
         Val([ track_id         |-> o.track_id,
               recipient_email  |-> p.recipient_email,
               gmail_message_id |-> p.gmail_message_id,
               gmail_thread_id  |-> p.gmail_thread_id,
               sender_email     |-> Coalesce(p.sender_email, o.sender_email),
               sender_ip        |-> Coalesce(Val(sender_ip), o.sender_ip),
               subject          |-> Coalesce(p.subject, o.subject),
               created_at       |-> o.created_at ])

\* The row the pixel handler inserts.
OpenRow(q, t) ==
    [ track_id    |-> q.track_id,
      event_type  |-> "open",
      ip_address  |-> Val(q.client_ip),
      user_agent  |-> Val(q.user_agent),
      is_bot      |-> Val(q.is_bot),
      via_proxy   |-> Val(q.via_proxy),
      referrer    |-> Val(q.referer),
      clicked_url |-> NULL,
      duration    |-> NoDuration,
      created_at  |-> t ]

\* The row the click handler inserts.
ClickRow(track_id, url, t) ==
    [ track_id    |-> track_id,
      event_type  |-> "click",
      ip_address  |-> NULL,
      user_agent  |-> NULL,
      is_bot      |-> Val(FALSE),
      via_proxy   |-> NULL,
      referrer    |-> NULL,
      clicked_url |-> Val(url),
      duration    |-> NoDuration,
      created_at  |-> t ]

\* Width in seconds of the timestamp bucket of the events table's
\* uniqueness constraint.
BucketWidth == 1

Bucket(t) == t \div BucketWidth

\* The uniqueness constraint of the events table: one row per
\* (track_id, event_type, ip_address, user_agent, timestamp bucket).
\* A NULL key column never conflicts.
UniqueViolation(evs, e) ==
    \E i \in 1..Len(evs) :
        /\ evs[i].track_id = e.track_id
        /\ evs[i].event_type = e.event_type
        /\ e.ip_address # NULL /\ evs[i].ip_address = e.ip_address
        /\ e.user_agent # NULL /\ evs[i].user_agent = e.user_agent
        /\ Bucket(evs[i].created_at) = Bucket(e.created_at)

\* The INSERT without its conflict clause taking effect.
InsertOnConflictDoNothing_Always(evs, e) == Append(evs, e)

\* INSERT INTO events ... ON CONFLICT DO NOTHING
InsertOnConflictDoNothing(evs, e) ==
    IF UniqueViolation(evs, e) THEN evs ELSE Append(evs, e)

\* The latest open event of the table, whatever its track.
LatestOpenIds_AnyTrack(evs, track_id) ==
    LET opens == { i \in 1..Len(evs) : evs[i].event_type = "open" }
    IN  { i \in opens : \A j \in opens : evs[j].created_at <= evs[i].created_at }

\* SELECT id FROM events WHERE track_id = %s AND event_type = 'open'
\* ORDER BY created_at DESC LIMIT 1.  Rows with the same created_at are
\* returned in an order the query does not determine.
LatestOpenIds(evs, track_id) ==
    LET opens == { i \in 1..Len(evs) :
                     evs[i].track_id = track_id /\ evs[i].event_type = "open" }
    IN  { i \in opens : \A j \in opens : evs[j].created_at <= evs[i].created_at }

\* UPDATE events SET duration = %s WHERE id = ...
UpdateDuration(evs, id, duration) ==
    [evs EXCEPT ![id].duration = Val(duration)]

-----------------------------------------------------------------------------
(* Status *)

\* KeyMatch matching the provider message id alone.
KeyMatch_MessageIdOnly(s, key) == key \in s.gmail_message_id

KeyMatch(s, key) == key \in s.gmail_message_id \/ key \in s.gmail_thread_id

\* The rows of events JOIN sends ON track_id selected for a key (and a
\* recipient when one is given).
Joined(key, recipient) ==
    { i \in 1..Len(events) :
        /\ sends[events[i].track_id] # NULL
        /\ KeyMatch(TheVal(sends[events[i].track_id]), key)
        /\ (Truthy(recipient) =>
              TheVal(sends[events[i].track_id]).recipient_email = recipient) }

SendMatches(key, recipient) ==
    \E t \in TrackIds :
        /\ sends[t] # NULL
        /\ KeyMatch(TheVal(sends[t]), key)
        /\ (Truthy(recipient) => TheVal(sends[t]).recipient_email = recipient)

\* Proxy opens needed for 'read' (the ">= 1" of the query).
ProxyOpensForRead == 1

\* The CASE expression of get_status.
GetStatus(key, recipient) ==
    IF \E i \in Joined(key, recipient) :
          /\ events[i].event_type = "open"
          /\ FALSE \in events[i].via_proxy
          /\ FALSE \in events[i].is_bot
    THEN "read"
    ELSE IF Cardinality({ i \in Joined(key, recipient) :
                            /\ events[i].event_type = "open"
                            /\ TRUE \in events[i].via_proxy
                            /\ FALSE \in events[i].is_bot }) >= ProxyOpensForRead
    THEN "read"
    ELSE IF SendMatches(key, recipient) THEN "sent"
    ELSE "unknown"

\* The JSON response of get_status.
StatusResponse(key, recipient) ==
    LET st == GetStatus(key, recipient) IN
    [ key |-> key, recipient |-> recipient, status |-> st,
      code |-> IF st = "unknown" THEN 404 ELSE 200 ]

-----------------------------------------------------------------------------
(* Handlers.  Each takes the environment E it runs in: the sets its inputs *)
(* are drawn from.                                                         *)

Idle ==
    [ pc |-> "idle", track_id |-> "", client_ip |-> <<>>, user_agent |-> <<>>,
      referer |-> <<>>, sender_email |-> NULL, sender_token |-> NoToken,
      send_row |-> NULL, is_bot |-> FALSE, via_proxy |-> FALSE,
      should_log |-> FALSE, failed |-> "none", rowcount |-> 0, row |-> 0,
      arrived |-> 0, start_time |-> 0, url |-> <<>>, response |-> NULL ]

\* HTTPException(status_code=404)
NotFound == [status |-> 404, body |-> "", cache_control |-> ""]

\* StreamingResponse(image_stream(), media_type="image/png") with the
\* Cache-Control, Pragma and Expires headers of the handler.
PixelResponse ==
    [ status |-> 200, body |-> "PIXEL_BYTES",
      cache_control |-> "no-cache, no-store, must-revalidate, max-age=0" ]

\* Internal Server Error: an exception left the handler.
ServerError == [status |-> 500, body |-> "", cache_control |-> ""]

\* RedirectResponse(url): 307 Temporary Redirect with the Location header.
RedirectResponse(url) ==
    [status |-> 307, body |-> "", cache_control |-> "", location |-> url]

\* The characters the percent escapes of the inputs stand for.
Unhex(h) ==
    IF h = <<"2", "F">> THEN <<"/">>
    ELSE IF h = <<"2", "B">> THEN <<"+">>
    ELSE <<>>

\* urllib.parse.unquote_plus: "+" becomes a space and a percent escape the
\* character it encodes; a "%" that starts no escape stays.
RECURSIVE unquote_plus(_)
unquote_plus(s) ==
    IF s = <<>> THEN <<>>
    ELSE IF s[1] = "+" THEN <<" ">> \o unquote_plus(Tail(s))
    ELSE IF s[1] = "%" /\ Len(s) >= 3 /\ Unhex(SubSeq(s, 2, 3)) # <<>>
    THEN Unhex(SubSeq(s, 2, 3)) \o unquote_plus(SubSeq(s, 4, Len(s)))
    ELSE <<s[1]>> \o unquote_plus(Tail(s))

\* is_bot from the user agent alone.
IsBot_UserAgentOnly(client_ip, ua_string) == Contains(ua_string, BotWord)

\* is_bot = is_google_scanner_ip(client_ip) or "bot" in ua_string
IsBot(client_ip, ua_string) ==
    is_google_scanner_ip(client_ip) \/ Contains(ua_string, BotWord)

\* ShouldLog comparing the sender emails as they are, without lower().
ShouldLog_CaseSensitive(send_row, sender_email, sender_token, referer, track_id, time) ==
    IF send_row = NULL THEN FALSE
    ELSE LET stored_sender_email == TheVal(send_row).sender_email IN
         IF /\ Truthy(sender_email)
            /\ Truthy(stored_sender_email)
            /\ TheVal(sender_email) = TheVal(stored_sender_email)
         THEN FALSE
         ELSE IF sender_token # NoToken /\ Truthy(stored_sender_email)
         THEN ~verify_sender_token(sender_token, TheVal(stored_sender_email),
                                   track_id, MaxAge, time)
         ELSE IF is_gmail_sent_view(referer) THEN FALSE
         ELSE TRUE

\* ShouldLog looking at the token only when no sender-email parameter came.
ShouldLog_ParamShadowsToken(send_row, sender_email, sender_token, referer, track_id, time) ==
    IF send_row = NULL THEN FALSE
    ELSE LET stored_sender_email == TheVal(send_row).sender_email IN
         IF Truthy(sender_email) /\ Truthy(stored_sender_email)
         THEN Lower(TheVal(sender_email)) # Lower(TheVal(stored_sender_email))
         ELSE IF sender_token # NoToken /\ Truthy(stored_sender_email)
         THEN ~verify_sender_token(sender_token, TheVal(stored_sender_email),
                                   track_id, MaxAge, time)
         ELSE IF is_gmail_sent_view(referer) THEN FALSE
         ELSE TRUE

\* ShouldLog without the test for the send record.
ShouldLog_NoSendRecordTest(send_row, sender_email, sender_token, referer, track_id, time) ==
    IF send_row = NULL THEN TRUE
    ELSE LET stored_sender_email == TheVal(send_row).sender_email IN
         IF /\ Truthy(sender_email)
            /\ Truthy(stored_sender_email)
            /\ Lower(TheVal(sender_email)) = Lower(TheVal(stored_sender_email))
         THEN FALSE
         ELSE IF sender_token # NoToken /\ Truthy(stored_sender_email)
         THEN ~verify_sender_token(sender_token, TheVal(stored_sender_email),
                                   track_id, MaxAge, time)
         ELSE IF is_gmail_sent_view(referer) THEN FALSE
         ELSE TRUE

\* The sender filtering of the pixel handler: should_log.
ShouldLog(send_row, sender_email, sender_token, referer, track_id, time) ==
    IF send_row = NULL THEN FALSE
    ELSE LET stored_sender_email == TheVal(send_row).sender_email IN
         IF /\ Truthy(sender_email)
            /\ Truthy(stored_sender_email)
            /\ Lower(TheVal(sender_email)) = Lower(TheVal(stored_sender_email))
         THEN FALSE
         ELSE IF sender_token # NoToken /\ Truthy(stored_sender_email)
         THEN ~verify_sender_token(sender_token, TheVal(stored_sender_email),
                                   track_id, MaxAge, time)
         ELSE IF is_gmail_sent_view(referer) THEN FALSE
         ELSE TRUE

\* The exception leaving the handler instead of being caught.
PixelAfterError_Propagate(q) == [q EXCEPT !.pc = "responded", !.response = Val(ServerError)]

\* What the handler does with an exception raised inside its try block:
\* `except Exception` logs it and the handler goes on to the response.
PixelAfterError(q) == [q EXCEPT !.pc = "responded", !.response = Val(PixelResponse)]

\* POST /_register_send
RegisterSend(E) ==
    \E p \in E.payloads, sender_ip \in E.senderIps, fail \in E.registerFails :
        /\ IF p.track_id = NULL \/ p.recipient_email = NULL \/ fail
           THEN UNCHANGED sends
           ELSE sends' = [sends EXCEPT ![TheVal(p.track_id)] =
                             UpsertSend(@, p, sender_ip, now)]
        /\ UNCHANGED <<events, now, reqs, lastStatus, tok>>

\* GET /pixel/{track_id}.png, up to the decision whether to log: the
\* request data, the bot and proxy flags, the send-record lookup and the
\* sender filtering.
PixelFetch(r, E) ==
    /\ reqs[r].pc = "idle"
    /\ Len(events) < E.maxEvents
    /\ \E track_id \in E.tracks, ua \in E.userAgents, xff \in E.forwardedFor,
          ip \in E.peers, ref \in E.referers, sender_email \in E.senderEmails,
          sender_token \in E.tokens, fail \in E.fetchFails :
         LET client_ip == ClientIp(xff, ip)
             ua_string == Lower(ua)
             referer   == Lower(ref)
             send_row  == sends[track_id]
             log       == ShouldLog(send_row, sender_email, sender_token,
                                    referer, track_id, now)
             q == [ Idle EXCEPT
                      !.track_id = track_id, !.client_ip = client_ip,
                      !.user_agent = ua, !.referer = referer,
                      !.sender_email = sender_email,
                      !.sender_token = sender_token,
                      !.is_bot = IsBot(client_ip, ua_string),
                      !.via_proxy = is_google_proxy_request(ua_string),
                      !.arrived = now ]
         IN  reqs' = [reqs EXCEPT ![r] =
               IF ~valid_uuid(track_id)
               THEN [Idle EXCEPT !.pc = "rejected", !.track_id = track_id,
                                 !.response = Val(NotFound)]
               ELSE IF fail # "none"
               THEN PixelAfterError([q EXCEPT !.failed = fail])
               ELSE IF log
               THEN [q EXCEPT !.pc = "insert", !.send_row = send_row,
                              !.should_log = TRUE]
               ELSE [q EXCEPT !.pc = "responded", !.send_row = send_row,
                              !.response = Val(PixelResponse)]]
    /\ UNCHANGED <<sends, events, now, lastStatus, tok>>

\* The INSERT of the open event and its commit, then the response.
PixelInsert(r, E) ==
    /\ reqs[r].pc = "insert"
    /\ Len(events) < E.maxEvents
    /\ \E fail \in E.insertFails :
         IF fail
         THEN /\ reqs' = [reqs EXCEPT ![r] =
                            PixelAfterError([@ EXCEPT !.failed = "insert"])]
              /\ UNCHANGED events
         ELSE /\ events' = InsertOnConflictDoNothing(events, OpenRow(reqs[r], now))
              /\ reqs' = [reqs EXCEPT ![r] =
                            [@ EXCEPT !.pc = "responded",
                                      !.rowcount = Len(events') - Len(events),
                                      !.row = IF Len(events') > Len(events)
                                              THEN Len(events') ELSE 0,
                                      !.response = Val(PixelResponse)]]
    /\ UNCHANGED <<sends, now, lastStatus, tok>>

\* The request that got a 404 is over.
PixelRejected(r) ==
    /\ reqs[r].pc = "rejected"
    /\ reqs' = [reqs EXCEPT ![r] = Idle]
    /\ UNCHANGED <<sends, events, now, lastStatus, tok>>

\* image_stream starts: start_time is taken and the pixel bytes are sent.
\* Of the handler's variables the generator uses track_id alone; should_log,
\* failed, rowcount and row stay as the record of what the request did: row
\* is the id of the event it inserted, 0 when it inserted none.
StreamStart(r) ==
    /\ reqs[r].pc = "responded"
    /\ reqs' = [reqs EXCEPT ![r] =
                   [Idle EXCEPT !.pc = "streaming", !.track_id = reqs[r].track_id,
                                !.should_log = reqs[r].should_log,
                                !.failed = reqs[r].failed,
                                !.rowcount = reqs[r].rowcount,
                                !.row = reqs[r].row,
                                !.response = reqs[r].response,
                                !.start_time = now]]
    /\ UNCHANGED <<sends, events, now, lastStatus, tok>>

\* The client closes the connection: the finally block of image_stream
\* writes the duration to the latest open event of the track.
StreamFinish(r, E) ==
    /\ reqs[r].pc = "streaming"
    /\ \E fail \in E.updateFails :
         LET duration == now - reqs[r].start_time
             latest   == LatestOpenIds(events, reqs[r].track_id)
         IN  IF fail \/ latest = {}
             THEN UNCHANGED events
             ELSE \E id \in latest : events' = UpdateDuration(events, id, duration)
    /\ reqs' = [reqs EXCEPT ![r] = Idle]
    /\ UNCHANGED <<sends, now, lastStatus, tok>>

\* What the click handler does with an exception of get_conn, execute or
\* commit: nothing catches it, the request is answered with status 500.
ClickAfterError(q, decoded_url) == [q EXCEPT !.response = Val(ServerError)]

\* GET /click/{track_id}?url=...
Click(r, E) ==
    /\ reqs[r].pc = "idle"
    /\ Len(events) < E.maxEvents
    /\ \E track_id \in E.tracks, url \in E.urls, fail \in E.clickFails :
         LET decoded_url == unquote_plus(url)
             q == [Idle EXCEPT !.pc = "clicked", !.track_id = track_id,
                               !.url = url, !.failed = fail]
         IN  IF ~valid_uuid(track_id)
             THEN /\ reqs' = [reqs EXCEPT ![r] =
                                [q EXCEPT !.failed = "none",
                                          !.response = Val(NotFound)]]
                  /\ UNCHANGED events
             ELSE IF fail # "none"
             THEN /\ reqs' = [reqs EXCEPT ![r] = ClickAfterError(q, decoded_url)]
                  /\ UNCHANGED events
             ELSE /\ events' = Append(events, ClickRow(track_id, decoded_url, now))
                  /\ reqs' = [reqs EXCEPT ![r] =
                                [q EXCEPT !.response =
                                              Val(RedirectResponse(decoded_url))]]
    /\ UNCHANGED <<sends, now, lastStatus, tok>>

\* The answer of the click handler has been sent.
ClickAnswered(r) ==
    /\ reqs[r].pc = "clicked"
    /\ reqs' = [reqs EXCEPT ![r] = Idle]
    /\ UNCHANGED <<sends, events, now, lastStatus, tok>>

\* GET /status
StatusQuery(E) ==
    /\ \E key \in E.keys, recipient \in E.recipients :
         lastStatus' = Val(StatusResponse(key, recipient))
    /\ UNCHANGED <<sends, events, now, reqs, tok>>

\* Time passes, to the next instant the environment observes.
Tick(E) ==
    /\ \E t \in E.times : t > now
    /\ now' = CHOOSE t \in E.times : t > now /\ \A u \in E.times : u > now => t <= u
    /\ UNCHANGED <<sends, events, reqs, lastStatus, tok>>

\* A second passes once the fetch of this second has been stored and every
\* connection is closed.
TickAfterOpen ==
    /\ \A r \in ReqIds : reqs[r].pc = "idle"
    /\ \E i \in 1..Len(events) : events[i].created_at = now
    /\ now' = now + 1
    /\ UNCHANGED <<sends, events, reqs, lastStatus, tok>>

\* generate_sender_token is called with an explicit timestamp.
IssueToken(E) ==
    /\ tok.pc = "none"
    /\ \E email \in E.emails, track \in E.tracks, t \in E.issueTimes :
         tok' = [tok EXCEPT !.pc = "issued", !.email = email, !.track = track,
                            !.t = t,
                            !.token = generate_sender_token(email, track, t)]
    /\ UNCHANGED <<sends, events, now, reqs, lastStatus>>

\* The token string is changed on its way back to the service: another
\* signature, a missing or an additional segment, or a timestamp that is
\* not a number.
AlterToken(E) ==
    /\ tok.pc = "issued"
    /\ tok.altered = "no"
    /\ \/ \E sig \in E.signatures :
            /\ sig # tok.token[2]
            /\ tok' = [tok EXCEPT !.altered = "signature",
                                  !.token = <<tok.token[1], sig>>]
       \/ tok' = [tok EXCEPT !.altered = "one part", !.token = <<tok.token[1]>>]
       \/ tok' = [tok EXCEPT !.altered = "three parts",
                             !.token = Append(tok.token, TxtSeg)]
       \/ tok' = [tok EXCEPT !.altered = "timestamp",
                             !.token = <<TxtSeg, tok.token[2]>>]
    /\ UNCHANGED <<sends, events, now, reqs, lastStatus>>

\* verify_sender_token is called at the current time.
VerifyToken(E) ==
    /\ tok.pc = "issued"
    /\ \E email \in E.emails, track \in E.tracks, max_age \in E.maxAges :
         tok' = [tok EXCEPT !.pc = "verified", !.vEmail = email,
                            !.vTrack = track, !.max_age = max_age,
                            !.result = verify_sender_token(tok.token, email, track,
                                                           max_age, now)]
    /\ UNCHANGED <<sends, events, now, reqs, lastStatus>>

\* No token has been issued.
NoCheck ==
    [ pc |-> "none", email |-> <<>>, track |-> "", t |-> 0, token |-> NoToken,
      altered |-> "no", vEmail |-> <<>>, vTrack |-> "", max_age |-> 0,
      result |-> FALSE ]

Init ==
    /\ sends = [t \in TrackIds |-> NULL]
    /\ events = <<>>
    /\ now = 0
    /\ reqs = [r \in ReqIds |-> Idle]
    /\ lastStatus = NULL
    /\ tok = NoCheck

-----------------------------------------------------------------------------
(* Environments and specifications *)

\* Most event rows a run stores.
MaxEvents == 1

Recipient == <<"r", "@", "y">>

Subject == <<"H", "i">>

Url == <<"u">>

\* Message correlation keys: provider message ids and thread ids.
K1 == <<"k", "1">>

K2 == <<"k", "2">>

K3 == <<"k", "3">>

Payload(track_id, sender_email) ==
    [ track_id |-> Val(track_id), recipient_email |-> Val(Recipient),
      gmail_message_id |-> NULL, gmail_thread_id |-> NULL,
      sender_email |-> sender_email, subject |-> NULL ]

\* The signals of a pixel fetch for one registered track: client
\* addresses, user agents, referers, the time since the send, and every
\* failure of the store, one fetch at a time.
EnvSignals ==
    [ payloads      |-> { Payload(T1, e) : e \in {NULL, Val(Email_a)} },
      senderIps     |-> {IP_Public},
      registerFails |-> {FALSE, TRUE},
      tracks        |-> {T1, T2, TBad},
      userAgents    |-> {UA_Browser, UA_Bot, UA_Empty, UA_Crawler},
      forwardedFor  |-> {<<>>, <<IP_Scanner, IP_Public>>},
      peers         |-> {IP_Public, IP_Private, IP_Garbage},
      referers      |-> {Ref_None, Ref_Sent},
      senderEmails  |-> {NULL, Val(Email_A)},
      tokens        |-> {NoToken},
      fetchFails    |-> {"none", "conn", "select"},
      insertFails   |-> {FALSE, TRUE},
      updateFails   |-> {FALSE, TRUE},
      times         |-> {0, 2, 10},
      reqs          |-> {"r1"},
      maxEvents     |-> MaxEvents ]

Next ==
    \/ RegisterSend(EnvSignals)
    \/ \E r \in EnvSignals.reqs : PixelFetch(r, EnvSignals)
    \/ \E r \in EnvSignals.reqs : PixelInsert(r, EnvSignals)
    \/ \E r \in EnvSignals.reqs : PixelRejected(r)
    \/ \E r \in EnvSignals.reqs : StreamStart(r)
    \/ \E r \in EnvSignals.reqs : StreamFinish(r, EnvSignals)
    \/ Tick(EnvSignals)

Spec == Init /\ [][Next]_vars

-----------------------------------------------------------------------------
\* The sender's own views of one registered track: every combination of
\* the sender-email parameter, the sender token and the referer against
\* the stored sender email.
EnvSender ==
    [ payloads      |-> { Payload(T1, e) : e \in {NULL, Val(<<>>), Val(Email_a)} },
      senderIps     |-> {IP_Public},
      registerFails |-> {FALSE},
      tracks        |-> {T1},
      userAgents    |-> {UA_Browser},
      forwardedFor  |-> {<<>>},
      peers         |-> {IP_Public},
      referers      |-> {Ref_None, Ref_Sent, Ref_Inbox},
      senderEmails  |-> {NULL, Val(<<>>), Val(Email_A), Val(Email_b)},
      tokens        |-> { NoToken,
                          generate_sender_token(Email_a, T1, 0),
                          generate_sender_token(<<>>, T1, 0),
                          generate_sender_token(Email_a, T2, 0),
                          <<IntSeg(0), TxtSeg>> },
      fetchFails    |-> {"none"},
      insertFails   |-> {FALSE},
      updateFails   |-> {FALSE},
      times         |-> {0, 3600, 3601},
      reqs          |-> {"r1"},
      maxEvents     |-> MaxEvents ]

NextSender ==
    \/ RegisterSend(EnvSender)
    \/ \E r \in EnvSender.reqs : PixelFetch(r, EnvSender)
    \/ \E r \in EnvSender.reqs : PixelInsert(r, EnvSender)
    \/ \E r \in EnvSender.reqs : StreamStart(r)
    \/ \E r \in EnvSender.reqs : StreamFinish(r, EnvSender)
    \/ Tick(EnvSender)

SpecSender == Init /\ [][NextSender]_vars

-----------------------------------------------------------------------------
FullPayload(track_id, message_id, thread_id, sender_email, subject) ==
    [ track_id |-> Val(track_id), recipient_email |-> Val(Recipient),
      gmail_message_id |-> message_id, gmail_thread_id |-> thread_id,
      sender_email |-> sender_email, subject |-> subject ]

\* Two tracks of one thread, registered with and without their optional
\* fields; opens by a browser, a bot and the image proxy; clicks; long and
\* short views; status queries by message id and by thread id.
EnvStatus ==
    [ payloads      |-> { FullPayload(T1, Val(K1), Val(K2), Val(Email_a), Val(Subject)),
                          FullPayload(T1, NULL, NULL, NULL, NULL),
                          FullPayload(T2, NULL, Val(K2), NULL, NULL) },
      senderIps     |-> {IP_Public},
      registerFails |-> {FALSE},
      tracks        |-> {T1, T2},
      userAgents    |-> {UA_Browser, UA_Bot, UA_Proxy},
      forwardedFor  |-> {<<>>},
      peers         |-> {IP_Public},
      referers      |-> {Ref_None},
      senderEmails  |-> {NULL},
      tokens        |-> {NoToken},
      fetchFails    |-> {"none"},
      insertFails   |-> {FALSE},
      updateFails   |-> {FALSE},
      clickFails    |-> {"none"},
      urls          |-> {Url},
      keys          |-> {K1, K2, K3},
      recipients    |-> {NULL, Val(Recipient)},
      times         |-> {0, 90},
      reqs          |-> {"r1"},
      maxEvents     |-> MaxEvents ]

NextStatus ==
    \/ RegisterSend(EnvStatus)
    \/ \E r \in EnvStatus.reqs : PixelFetch(r, EnvStatus)
    \/ \E r \in EnvStatus.reqs : PixelInsert(r, EnvStatus)
    \/ \E r \in EnvStatus.reqs : StreamStart(r)
    \/ \E r \in EnvStatus.reqs : StreamFinish(r, EnvStatus)
    \/ \E r \in EnvStatus.reqs : Click(r, EnvStatus)
    \/ \E r \in EnvStatus.reqs : ClickAnswered(r)
    \/ StatusQuery(EnvStatus)
    \/ Tick(EnvStatus)

SpecStatus == Init /\ [][NextStatus]_vars

-----------------------------------------------------------------------------
\* Two connections fetching the pixel of one track at once: the same
\* fetch twice, or fetches that differ in user agent or in the second
\* they arrive.
EnvDup ==
    [ payloads      |-> { Payload(T1, NULL) },
      senderIps     |-> {IP_Public},
      registerFails |-> {FALSE},
      tracks        |-> {T1},
      userAgents    |-> {UA_Browser, UA_Proxy},
      forwardedFor  |-> {<<>>},
      peers         |-> {IP_Public},
      referers      |-> {Ref_None},
      senderEmails  |-> {NULL},
      tokens        |-> {NoToken},
      fetchFails    |-> {"none"},
      insertFails   |-> {FALSE},
      updateFails   |-> {FALSE},
      times         |-> {0, 1},
      reqs          |-> {"r1", "r2"},
      maxEvents     |-> MaxEvents + 1 ]

NextDup ==
    \/ RegisterSend(EnvDup)
    \/ \E r \in EnvDup.reqs : PixelFetch(r, EnvDup)
    \/ \E r \in EnvDup.reqs : PixelInsert(r, EnvDup)
    \/ \E r \in EnvDup.reqs : StreamStart(r)
    \/ \E r \in EnvDup.reqs : StreamFinish(r, EnvDup)
    \/ Tick(EnvDup)

SpecDup == Init /\ [][NextDup]_vars

-----------------------------------------------------------------------------
\* The ceiling of stored opens per client address per hour.
RateCeiling == 50

\* The trailing window of the rate limit, in seconds.
RateWindow == 3600

\* One client fetching the pixel of one track once a second.
EnvRate ==
    [ payloads      |-> { Payload(T1, NULL) },
      senderIps     |-> {IP_Public},
      registerFails |-> {FALSE},
      tracks        |-> {T1},
      userAgents    |-> {UA_Browser},
      forwardedFor  |-> {<<>>},
      peers         |-> {IP_Public},
      referers      |-> {Ref_None},
      senderEmails  |-> {NULL},
      tokens        |-> {NoToken},
      fetchFails    |-> {"none"},
      insertFails   |-> {FALSE},
      updateFails   |-> {FALSE},
      reqs          |-> {"r1"},
      maxEvents     |-> RateCeiling + 1 ]

NextRate ==
    \/ RegisterSend(EnvRate)
    \/ \E r \in EnvRate.reqs : PixelFetch(r, EnvRate)
    \/ \E r \in EnvRate.reqs : PixelInsert(r, EnvRate)
    \/ \E r \in EnvRate.reqs : StreamStart(r)
    \/ \E r \in EnvRate.reqs : StreamFinish(r, EnvRate)
    \/ TickAfterOpen

SpecRate == Init /\ [][NextRate]_vars

\* A link with a "+" and a percent escape.
Url_Encoded == <<"u", "+", "%", "2", "F", "v">>

\* Two connections at a time on two registered tracks: fetches that are
\* stored and fetches the sender filtering drops, clicks, and a store that
\* fails under a click.
EnvStore ==
    [ payloads      |-> { Payload(T1, NULL), Payload(T2, NULL) },
      senderIps     |-> {IP_Public},
      registerFails |-> {FALSE},
      tracks        |-> {T1, T2},
      userAgents    |-> {UA_Browser},
      forwardedFor  |-> {<<>>},
      peers         |-> {IP_Public},
      referers      |-> {Ref_None, Ref_Sent},
      senderEmails  |-> {NULL},
      tokens        |-> {NoToken},
      fetchFails    |-> {"none"},
      insertFails   |-> {FALSE},
      updateFails   |-> {FALSE},
      clickFails    |-> {"none", "insert"},
      urls          |-> {Url_Encoded},
      times         |-> {0, 1},
      reqs          |-> {"r1", "r2"},
      maxEvents     |-> MaxEvents + 1 ]

NextStore ==
    \/ RegisterSend(EnvStore)
    \/ \E r \in EnvStore.reqs : PixelFetch(r, EnvStore)
    \/ \E r \in EnvStore.reqs : PixelInsert(r, EnvStore)
    \/ \E r \in EnvStore.reqs : StreamStart(r)
    \/ \E r \in EnvStore.reqs : StreamFinish(r, EnvStore)
    \/ \E r \in EnvStore.reqs : Click(r, EnvStore)
    \/ \E r \in EnvStore.reqs : ClickAnswered(r)
    \/ Tick(EnvStore)

SpecStore == Init /\ [][NextStore]_vars

\* Sender tokens on their own: issue times, checking times and maximum
\* ages on both sides of the expiry, and signatures of other messages.
EnvToken ==
    [ emails     |-> {Email_a, Email_A, Email_b},
      tracks     |-> {T1, T2},
      issueTimes |-> {0, 1, 2},
      maxAges    |-> {1, MaxAge},
      signatures |-> {TxtSeg} \cup { Hmac(e, tr, t) : e \in {Email_a, Email_b},
                                                     tr \in {T1, T2}, t \in {0, 1} },
      times      |-> {0, 1, 2, 3, 4, 3600, 3601, 3602, 3603} ]

InitToken ==
    /\ sends = [t \in TrackIds |-> NULL]
    /\ events = <<>>
    /\ now \in EnvToken.times
    /\ reqs = [r \in ReqIds |-> Idle]
    /\ lastStatus = NULL
    /\ tok = NoCheck

NextToken ==
    \/ IssueToken(EnvToken)
    \/ AlterToken(EnvToken)
    \/ VerifyToken(EnvToken)

SpecToken == InitToken /\ [][NextToken]_vars

-----------------------------------------------------------------------------
(* Claims *)

OpenIds == { i \in 1..Len(events) : events[i].event_type = "open" }

\* The tracks whose send record carries key k as message id or as thread id.
TracksOfKey(k) ==
    { t \in TrackIds :
        /\ sends[t] # NULL
        /\ (TheVal(sends[t]).gmail_message_id = Val(k)
            \/ TheVal(sends[t]).gmail_thread_id = Val(k)) }

\* The pixel handler has run for q, without a failure of the store.
Decided(q) == q.pc = "responded" /\ q.failed = "none"

\* C1: for every message key, the status query without recipient filter
\* answers 'read' exactly when a send record matching the key by message
\* id or thread id has an open event that is not a bot's (proxy-flagged or
\* not), 'sent' exactly when a record matches and has no such event, and
\* 'unknown' exactly when no record matches.
C1_StatusFromNonBotOpens ==
    \A k \in EnvStatus.keys :
        LET read == \E i \in OpenIds :
                        /\ events[i].track_id \in TracksOfKey(k)
                        /\ events[i].is_bot = Val(FALSE)
        IN  GetStatus(k, NULL) =
                IF read THEN "read"
                ELSE IF TracksOfKey(k) # {} THEN "sent"
                ELSE "unknown"

\* The status query has answered 'read' for a key matched by thread id
\* whose only open came through the image proxy.
C1_Witness ==
    /\ lastStatus = Val([key |-> K2, recipient |-> NULL, status |-> "read", code |-> 200])
    /\ TracksOfKey(K2) = {T2}
    /\ \E i \in OpenIds :
         /\ events[i].track_id = T2
         /\ events[i].via_proxy = Val(TRUE)
         /\ events[i].is_bot = Val(FALSE)

\* C2: whenever a message has an open event that is not a bot's and whose
\* duration exceeds 60 seconds, the status query answers 'active'.
C2_ActiveOnLongView ==
    \A k \in EnvStatus.keys :
        (\E i \in OpenIds :
            /\ events[i].track_id \in TracksOfKey(k)
            /\ events[i].is_bot = Val(FALSE)
            /\ \E d \in events[i].duration : d > 60)
        => GetStatus(k, NULL) = "active"

\* C3: no stored open event has an internal client address.
C3_NoInternalIpEvent ==
    \A i \in OpenIds : ~is_internal_ip(TheVal(events[i].ip_address))

\* The fetch of q carries a sender-email parameter equal, letter case
\* ignored, to the sender email its lookup found stored.
SenderParamMatches(q) ==
    /\ q.send_row # NULL
    /\ TheVal(q.send_row).sender_email # NULL
    /\ q.sender_email # NULL
    /\ Lower(TheVal(q.sender_email)) = Lower(TheVal(TheVal(q.send_row).sender_email))

\* The fetch of q is suppressed: it is not to be logged and has added no row.
Suppressed(q) == ~q.should_log /\ q.rowcount = 0

\* C4 as stated: for a track whose stored sender email is non-null, a
\* fetch whose sender-email parameter equals it ignoring case adds no row.
C4_SenderParamSuppressed ==
    \A r \in ReqIds :
        (Decided(reqs[r]) /\ SenderParamMatches(reqs[r])) => Suppressed(reqs[r])

\* C4 amended: for a track whose stored sender email is non-null and not
\* the empty string, a fetch whose sender-email parameter equals it
\* ignoring case adds no row.
C4_NonEmptySenderParamSuppressed ==
    \A r \in ReqIds :
        ( /\ Decided(reqs[r])
          /\ SenderParamMatches(reqs[r])
          /\ TheVal(reqs[r].send_row).sender_email # Val(<<>>) )
        => Suppressed(reqs[r])

\* A fetch with the sender email in another letter case than the stored
\* one has been answered.
C4_Witness ==
    /\ reqs["r1"].pc = "responded"
    /\ reqs["r1"].failed = "none"
    /\ reqs["r1"].send_row # NULL
    /\ TheVal(reqs["r1"].send_row).sender_email = Val(Email_a)
    /\ reqs["r1"].sender_email = Val(Email_A)
    /\ reqs["r1"].referer = Ref_None
    /\ events = <<>>

\* The fetch of q carries a token that verifies against the sender email
\* its lookup found stored.
SenderTokenVerifies(q) ==
    /\ q.send_row # NULL
    /\ Truthy(TheVal(q.send_row).sender_email)
    /\ q.sender_token # NoToken
    /\ verify_sender_token(q.sender_token, TheVal(TheVal(q.send_row).sender_email),
                           q.track_id, MaxAge, q.arrived)

\* C5: for a track with a stored sender email, a fetch whose sender token
\* verifies against it adds no row, whatever sender-email parameter comes
\* with it.
C5_SenderTokenSuppressed ==
    \A r \in ReqIds :
        (Decided(reqs[r]) /\ SenderTokenVerifies(reqs[r])) => Suppressed(reqs[r])

\* A fetch with a verifying token and a sender-email parameter that does
\* not match has been answered, an hour after the token was issued.
C5_Witness ==
    /\ reqs["r1"].pc = "responded"
    /\ SenderTokenVerifies(reqs["r1"])
    /\ reqs["r1"].sender_email = Val(Email_b)
    /\ reqs["r1"].arrived = 3600
    /\ reqs["r1"].referer = Ref_None
    /\ events = <<>>

\* C6: an open event stored for a fetch that arrived less than 5 seconds
\* after the send record's created_at has is_bot = true.
C6_GhostOpenFlagged ==
    \A r \in ReqIds :
        ( /\ reqs[r].pc = "responded"
          /\ reqs[r].rowcount = 1
          /\ reqs[r].arrived - TheVal(reqs[r].send_row).created_at < 5 )
        => reqs[r].is_bot

\* C7: the stored opens of one client address within the trailing hour
\* never exceed the ceiling.
C7_RateCeilingKept ==
    \A i \in OpenIds :
        Cardinality({ j \in OpenIds :
                        /\ events[j].ip_address = events[i].ip_address
                        /\ events[j].created_at > now - RateWindow })
            <= RateCeiling

\* Two event rows are the same open: same track, type, client address,
\* user agent and timestamp bucket.
SameOpen(e, f) ==
    /\ e.event_type = "open" /\ f.event_type = "open"
    /\ e.track_id = f.track_id
    /\ e.ip_address = f.ip_address
    /\ e.user_agent = f.user_agent
    /\ e.created_at \div BucketWidth = f.created_at \div BucketWidth

C9_NoFieldNulled ==
    [][ \A t \in TrackIds :
          sends[t] # NULL =>
            /\ sends'[t] # NULL
            /\ TheVal(sends[t]).sender_email # NULL => TheVal(sends'[t]).sender_email # NULL
            /\ TheVal(sends[t]).sender_ip # NULL => TheVal(sends'[t]).sender_ip # NULL
            /\ TheVal(sends[t]).subject # NULL => TheVal(sends'[t]).subject # NULL
            /\ TheVal(sends[t]).gmail_message_id # NULL
                 => TheVal(sends'[t]).gmail_message_id # NULL
            /\ TheVal(sends[t]).gmail_thread_id # NULL
                 => TheVal(sends'[t]).gmail_thread_id # NULL ]_vars

\* C10: a pixel fetch with a well-formed track id is answered with the
\* pixel payload and caching disabled, whatever the classification and
\* whichever store call failed; only a malformed track id gets another
\* answer.
C10_PixelAlwaysServed ==
    \A r \in ReqIds :
        /\ reqs[r].pc \in {"responded", "streaming"}
             => (valid_uuid(reqs[r].track_id) /\ reqs[r].response = Val(PixelResponse))
        /\ reqs[r].pc = "rejected" => ~valid_uuid(reqs[r].track_id)

\* A fetch whose event insert failed has been answered with the pixel.
C10_Witness ==
    /\ reqs["r1"].pc = "responded"
    /\ reqs["r1"].failed = "insert"
    /\ reqs["r1"].response = Val(PixelResponse)
    /\ reqs["r1"].rowcount = 0

\* The signature generate_sender_token gives the issued token.
IssuedSignature == generate_sender_token(tok.email, tok.track, tok.t)[2]

\* C11: a token issued for an email and a track at time t verifies for the
\* same email and track while the time is before t + max_age; no token
\* verifies after t + max_age; a token whose signature segment differs from
\* the issued one does not verify for that email and track; a token that has
\* not exactly two segments, or whose first segment is no integer, does not
\* verify.
C11_TokenVerification ==
    tok.pc = "verified" =>
        /\ (/\ tok.altered = "no"
            /\ tok.vEmail = tok.email
            /\ tok.vTrack = tok.track
            /\ now < tok.t + tok.max_age) => tok.result
        /\ now > tok.t + tok.max_age => ~tok.result
        /\ (/\ Len(tok.token) = 2
            /\ tok.token[2] # IssuedSignature
            /\ tok.vEmail = tok.email
            /\ tok.vTrack = tok.track) => ~tok.result
        /\ (Len(tok.token) # 2 \/ tok.token[1].kind # "int") => ~tok.result

\* An unaltered token was accepted in the last second before its expiry and
\* time has passed since it was issued.
C11_Witness ==
    /\ tok.pc = "verified"
    /\ tok.altered = "no"
    /\ tok.result
    /\ tok.t > 0
    /\ now = tok.t + tok.max_age - 1

\* C12: a fetch that found no send record for its track goes on without
\* the INSERT and stores nothing, and every stored open event carries the
\* track id of a send record.  Send records are never deleted, so that
\* record was there when the event was inserted.
C12_OpenHasSendRecord ==
    /\ \A r \in ReqIds :
          (reqs[r].pc \in {"insert", "responded"} /\ reqs[r].failed = "none"
              /\ reqs[r].send_row = NULL)
            => (reqs[r].pc = "responded" /\ Suppressed(reqs[r]))
    /\ \A i \in OpenIds : sends[events[i].track_id] # NULL

\* A fetch for a track that was never registered has been answered while
\* another track has a send record, and nothing is stored.
C12_Witness ==
    /\ \E r \in ReqIds :
          /\ Decided(reqs[r])
          /\ reqs[r].track_id = T2
          /\ reqs[r].send_row = NULL
    /\ sends[T1] # NULL
    /\ events = <<>>

\* C13: the click handler answers every request for a well-formed track id
\* with a redirect to the decoded url, whether or not the store could be
\* reached and the click event inserted.
C13_ClickAlwaysRedirects ==
    \A r \in ReqIds :
        (reqs[r].pc = "clicked" /\ valid_uuid(reqs[r].track_id))
          => reqs[r].response = Val(RedirectResponse(unquote_plus(reqs[r].url)))

\* C14: for a registered track, a fetch whose referer is a sent-folder
\* referer adds no event row, whatever sender-email parameter and token
\* come with it.
C14_SentViewSuppressed ==
    \A r \in ReqIds :
        (/\ Decided(reqs[r])
         /\ reqs[r].send_row # NULL
         /\ is_gmail_sent_view(reqs[r].referer))
          => Suppressed(reqs[r])

\* C15: under every interleaving of the handlers, no step changes a field
\* of a stored event other than duration, and duration is written only
\* once, while it is still unset, by the completion handler of the fetch
\* that inserted the event.
C15_DurationOnceByInserter ==
    [][ \A i \in 1..Len(events) :
          /\ events'[i] = [events[i] EXCEPT !.duration = events'[i].duration]
          /\ events'[i].duration # events[i].duration
                => /\ events[i].duration = NoDuration
                   /\ \E r \in ReqIds : /\ reqs[r].pc = "streaming"
                                        /\ reqs'[r].pc = "idle"
                                        /\ reqs[r].row = i ]_vars

\* C16: no step of a fetch that the sender filtering or the missing send
\* record suppressed writes to the store: not its arrival, not its response
\* and not its completion handler; the event rows and each of their
\* fields, duration among them, stay as they are.
C16_SuppressedFetchWritesNothing ==
    [][ \A r \in ReqIds :
          /\ (reqs[r].pc = "idle" /\ Decided(reqs'[r]) /\ Suppressed(reqs'[r]))
                => events' = events
          /\ (/\ reqs[r].pc \in {"responded", "streaming"}
              /\ reqs[r].failed = "none"
              /\ Suppressed(reqs[r])
              /\ reqs'[r] # reqs[r])
                => events' = events ]_vars

\* C17: a fetch from a scanner address that the sender rules let through
\* and whose store operations succeed has its open event in the store with
\* is_bot true, whatever the user agent; and no stored open event with a
\* scanner address has is_bot false.
C17_ScannerIpIsBot ==
    /\ \A r \in ReqIds :
          (/\ Decided(reqs[r])
           /\ reqs[r].should_log
           /\ is_google_scanner_ip(reqs[r].client_ip))
            => \E i \in OpenIds :
                   /\ events[i].track_id = reqs[r].track_id
                   /\ events[i].ip_address = Val(reqs[r].client_ip)
                   /\ events[i].user_agent = Val(reqs[r].user_agent)
                   /\ events[i].is_bot = Val(TRUE)
    /\ \A i \in OpenIds :
          (events[i].ip_address # NULL
              /\ is_google_scanner_ip(TheVal(events[i].ip_address)))
            => events[i].is_bot = Val(TRUE)

\* The open event of a browser user agent coming from a scanner address is
\* stored.
C17_Witness ==
    \E i \in OpenIds :
        /\ events[i].ip_address = Val(IP_Scanner)
        /\ events[i].user_agent = Val(UA_Browser)
        /\ events[i].is_bot = Val(TRUE)

\* The substrings that mark the user agent of an automated client.
BotWords ==
    { <<"b", "o", "t">>, <<"c", "r", "a", "w", "l">>,
      <<"s", "p", "i", "d", "e", "r">>,
      <<"m", "o", "n", "i", "t", "o", "r", "i", "n", "g">>,
      <<"c", "h", "e", "c", "k", "e", "r">>, <<"s", "c", "a", "n">> }

\* C18: no open event whose user agent is empty or contains, in any case,
\* one of 'bot', 'crawl', 'spider', 'monitoring', 'checker', 'scan' is
\* stored with is_bot false.
C18_BotUserAgentIsBot ==
    \A i \in OpenIds :
        (\/ events[i].user_agent = Val(<<>>)
         \/ \E w \in BotWords :
               events[i].user_agent # NULL
                 /\ Contains(Lower(TheVal(events[i].user_agent)), w))
          => events[i].is_bot = Val(TRUE)

\* The order of the statuses: unknown, sent, read.
StatusRank(st) == IF st = "read" THEN 2 ELSE IF st = "sent" THEN 1 ELSE 0

\* C19: for each message key and each recipient filter the status never
\* goes down: after 'read' it is never 'sent' or 'unknown', after 'sent'
\* never 'unknown'.
C19_StatusMonotone ==
    [][ \A key \in EnvStatus.keys, recipient \in EnvStatus.recipients :
          StatusRank(GetStatus(key, recipient)')
            >= StatusRank(GetStatus(key, recipient)) ]_vars

\* The track of the request in slot r that takes the step, when one does.
StepTrack(r) == IF reqs[r].pc = "idle" THEN reqs'[r].track_id ELSE reqs[r].track_id

\* C20: a step of a pixel fetch or of a click for a track, the duration
\* update of the fetch included, leaves every event row of another track as
\* it is, adds rows of its own track only, removes none, and leaves every
\* send record as it is.
C20_OtherTracksUntouched ==
    [][ \A r \in ReqIds :
          reqs'[r] # reqs[r] =>
            /\ sends' = sends
            /\ Len(events') >= Len(events)
            /\ \A i \in 1..Len(events) :
                  events[i].track_id # StepTrack(r) => events'[i] = events[i]
            /\ \A i \in (Len(events) + 1)..Len(events') :
                  events'[i].track_id = StepTrack(r) ]_vars

\* An open event of T1 stored after an open event of T2 has got its
\* duration from a completion handler, and the row of T2 still has none.
C20_Witness ==
    /\ Len(events) = 2
    /\ events[1].track_id = T2 /\ events[1].event_type = "open"
    /\ events[1].duration = NoDuration
    /\ events[2].track_id = T1 /\ events[2].event_type = "open"
    /\ events[2].duration # NoDuration
    /\ sends[T1] # NULL /\ sends[T2] # NULL

=============================================================================
